---- MODULE Spec2Model ----
(***************************************************************************)
(* A model of GameAnalyzer (src/analyze_game.py): the evaluation           *)
(* normaliser, the swing computation, the per-ply time budget, the         *)
(* single-pass game analysis, the streaming stability loop of              *)
(* analyze_position and the worst-move selector.                           *)
(*                                                                         *)
(* Units.  Evaluations are in pawns, as in the source; the oracle's        *)
(* centipawn scores are drawn from multiples of 100, so that cp / 100.0    *)
(* is an exact integer.  Clock readings (time.time()) are whole seconds.   *)
(* Time budgets passed to the oracle are in tenths of a second (0.1 s is   *)
(* 1, 11.0 s is 110); the code only compares them for equality.            *)
(* An Optional value is a sequence of length at most one: None is << >>    *)
(* and a present value v is << v >>.                                       *)
(***************************************************************************)
EXTENDS Integers, Sequences, FiniteSets, TLC

\* ---------------------------------------------------------------- bounds
\* Longest game (plies of the mainline) analyze_game is run on.
MaxPlies == 3
\* Longest MoveRecord sequence find_worst_moves is run on.
MaxRecords == 3
\* Largest forced-mate distance the oracle reports.
MaxMate == 6
\* Latest clock reading (seconds after start_time) at which an update arrives.
MaxTime == 22

\* ------------------------------------------------- configuration globals
\* TIME_LIMIT = 11.0 (tenths of a second)
TIME_LIMIT == 110
\* QUICK_ANALYSIS_TIME = 0.1 (tenths of a second)
QUICK_ANALYSIS_TIME == 1
\* QUICK_ANALYSIS_PLY: the source sets 50.  The model scales the threshold
\* down so that a game of MaxPlies plies crosses it; the comparison made
\* with it is the source's.
QUICK_ANALYSIS_PLY == 2
\* TOP_N: the source sets 20; scaled down so that the slice [:TOP_N] cuts
\* sequences of MaxRecords records.
TOP_N == 2
\* GAME_OVER_EVAL_THRESHOLD = 10.0 (pawns)
GAME_OVER_EVAL_THRESHOLD == 10
\* STABILITY_THRESHOLD = 10.0 (seconds)
STABILITY_THRESHOLD == 10
\* The divisor of score.relative.cp / 100.0
CentipawnsPerPawn == 100
\* The cap of mate scores, min(99, ...) and max(-99, ...)
MateCap == 99
\* The base of mate scores, 1000 - mate_distance
MateBase == 1000
\* The display depth of a principal variation, pv[:7]
PVDepth == 7
\* The budget analyze_specific_move passes for the move played (10 s)
ACTUAL_MOVE_TIME == 100

\* ------------------------------------------------------ Optional values
None == << >>

Some(v) == << v >>

Abs(x) == IF x < 0 THEN -x ELSE x

Min(a, b) == IF a <= b THEN a ELSE b

Max(a, b) == IF a >= b THEN a ELSE b

\* s[:n] of Python
Take(s, n) == SubSeq(s, 1, Min(n, Len(s)))

\* ------------------------------------------------- the oracle's updates
\* A raw relative score: absent ('score' not in info), centipawns, or a
\* forced mate in v moves (v > 0 for the side to move, v <= 0 against it).
NoScore == [kind |-> "none", v |-> 0]

Cp(c) == [kind |-> "cp", v |-> c]

Mate(d) == [kind |-> "mate", v |-> d]

CpValues == {-15000, -1500, -300, 0, 100, 1000, 1500, 9900, 10000}

\* Mate distances: the short ones, and the ones around MateBase - MateCap,
\* where 1000 - N falls below the cap.
MateDistances == (1 .. MaxMate) \cup {900, 901, 902, 999}

MateValues == {0} \cup MateDistances \cup {0 - d : d \in MateDistances}

Scores == {NoScore} \cup {Cp(c) : c \in CpValues} \cup {Mate(d) : d \in MateValues}

NoMove == "None"

Moves == {"m1", "m2"}

\* A line of eight moves, longer than the display depth.
LongPV == <<"m1", "m2", "m1", "m2", "m1", "m2", "m1", "m2">>

\* info.get("pv"): << >> stands for a missing or empty variation.
PVs == {<< >>, <<"m1">>, <<"m2", "m1">>, LongPV}

\* ------------------------------------------------- _extract_evaluation
\* The defect of leaving out the caps min(99, ...) and max(-99, ...).
ExtractEvaluationUncapped(info) ==
    IF info.score.kind = "none" THEN None
    ELSE IF info.score.kind = "mate"
         THEN IF info.score.v > 0
              THEN Some(MateBase - info.score.v)
              ELSE Some(-MateBase + info.score.v)
         ELSE Some(info.score.v \div CentipawnsPerPawn)

\* The defect of capping the mate distance itself instead of 1000 - distance.
ExtractEvaluationNoBase(info) ==
    IF info.score.kind = "none" THEN None
    ELSE IF info.score.kind = "mate"
         THEN IF info.score.v > 0
              THEN Some(Min(MateCap, info.score.v))
              ELSE Some(Max(-MateCap, info.score.v))
         ELSE Some(info.score.v \div CentipawnsPerPawn)

ExtractEvaluation(info) ==
    IF info.score.kind = "none" THEN None
    ELSE IF info.score.kind = "mate"
         THEN IF info.score.v > 0
              THEN Some(Min(MateCap, MateBase - info.score.v))
              ELSE Some(Max(-MateCap, -MateBase + info.score.v))
         ELSE Some(info.score.v \div CentipawnsPerPawn)

\* ------------------------------------------------ _calculate_eval_change
\* The defect of defaulting a missing operand's swing to zero.
CalculateEvalChangeZero(eval_before, eval_after) ==
    IF eval_before = None \/ eval_after = None
    THEN Some(0)
    ELSE Some((-eval_after[1]) - eval_before[1])

CalculateEvalChange(eval_before, eval_after) ==
    IF eval_before = None \/ eval_after = None
    THEN None
    ELSE Some((-eval_after[1]) - eval_before[1])

\* ------------------------------------------- analyze_game: time budget
\* The if/elif/else that sets time_limit for the position after the move.
TimeLimitForPly(ply_index, eval_before) ==
    IF ply_index + 1 < QUICK_ANALYSIS_PLY
    THEN QUICK_ANALYSIS_TIME
    ELSE IF eval_before # None /\ Abs(eval_before[1]) > GAME_OVER_EVAL_THRESHOLD
         THEN QUICK_ANALYSIS_TIME
         ELSE TIME_LIMIT

\* ------------------------------------------------------ find_worst_moves
\* The defect of not excluding decided positions.
IsCandidateNoThreshold(m) == m.eval_change # None

\* The condition of the list comprehension.

IsCandidate(m) ==
    /\ m.eval_change # None
    /\ (m.eval_before = None \/ Abs(m.eval_before[1]) <= GAME_OVER_EVAL_THRESHOLD)

RECURSIVE Filter(_)
Filter(s) ==
    IF s = << >> THEN << >>
    ELSE IF IsCandidate(Head(s))
         THEN <<Head(s)>> \o Filter(Tail(s))
         ELSE Filter(Tail(s))

\* The defect of an unstable sort: an element goes in front of the elements
\* already placed that have its key.
RECURSIVE InsertFront(_, _)
InsertFront(sorted, m) ==
    IF sorted = << >> THEN <<m>>
    ELSE IF Head(sorted).eval_change[1] < m.eval_change[1]
         THEN <<Head(sorted)>> \o InsertFront(Tail(sorted), m)
         ELSE <<m>> \o sorted

\* list.sort(key=...) is stable and ascending: an element goes behind every
\* element already placed whose key is not larger.
RECURSIVE Insert(_, _)
Insert(sorted, m) ==
    IF sorted = << >> THEN <<m>>
    ELSE IF Head(sorted).eval_change[1] <= m.eval_change[1]
         THEN <<Head(sorted)>> \o Insert(Tail(sorted), m)
         ELSE <<m>> \o sorted

RECURSIVE SortFrom(_, _)
SortFrom(sorted, rest) ==
    IF rest = << >> THEN sorted
    ELSE SortFrom(Insert(sorted, Head(rest)), Tail(rest))

SortByEvalChange(s) == SortFrom(<< >>, s)

\* s[-n:] of Python
TakeLast(s, n) == SubSeq(s, Len(s) - Min(n, Len(s)) + 1, Len(s))

\* The defect of slicing the wrong end of the sorted list.
FindWorstMovesTail(analysis) == TakeLast(SortByEvalChange(Filter(analysis)), TOP_N)

\* Lines 173-182: the comprehension, the sort, the slice [:TOP_N].
FindWorstMoves(analysis) == Take(SortByEvalChange(Filter(analysis)), TOP_N)

\* ------------------------------------------- analyze_position: verdicts
\* The defect of following the policy whatever the budget.
UseStabilityAnyBudget(mode, time_limit_) == mode = "stability"

\* Line 201: use_stability.
UseStability(mode, time_limit_) ==
    mode = "stability" /\ time_limit_ # QUICK_ANALYSIS_TIME

\* The verdict of the time-based branch, from the one info of engine.analyse.
FixedResult(info, taken) ==
    [best_move |-> IF info.pv # << >> THEN info.pv[1] ELSE NoMove,
     evaluation |-> IF info.score.kind # "none" THEN ExtractEvaluation(info) ELSE None,
     principal_variation |-> IF info.pv # << >> THEN Take(info.pv, PVDepth) ELSE << >>,
     time_taken |-> taken]

\* The defect of reporting a missing evaluation as 0.
StabilityResultDefaultZero(last_best_move_, best_eval_, best_pv_, taken) ==
    [best_move |-> last_best_move_,
     evaluation |-> IF best_eval_ = None THEN Some(0) ELSE best_eval_,
     principal_variation |-> IF best_pv_ # << >> THEN Take(best_pv_, PVDepth) ELSE << >>,
     time_taken |-> taken]

\* The verdict of the stability branch, from the tracked state.
StabilityResult(last_best_move_, best_eval_, best_pv_, taken) ==
    [best_move |-> last_best_move_,
     evaluation |-> best_eval_,
     principal_variation |-> IF best_pv_ # << >> THEN Take(best_pv_, PVDepth) ELSE << >>,
     time_taken |-> taken]

\* ------------------------------------------------------------- state
VARIABLES
    ANALYSIS_MODE,      \* the configuration global: "stability" or "time"
    engine,             \* self.engine is set (TRUE) or None (FALSE)
    op,                 \* the method running, or "idle"
    pc,                 \* the place in that method
    error,              \* the exception the method raised, or "none"
    oracle_requests,    \* calls of engine.analyse / engine.analysis so far
    \* analyze_game
    game,               \* the input: plies of the mainline, first terminal position
    ply_index,
    move_number,
    time_limit,         \* analyze_game's local time_limit
    current_analysis,
    moves_analysis,
    \* find_worst_moves
    analysis,           \* the input sequence
    worst_moves,        \* the returned sequence
    \* _extract_evaluation, applied to two updates
    infos,
    evaluations,
    \* analyze_position
    position_time_limit,    \* the parameter time_limit
    now,                    \* time.time()
    start_time,
    last_change_time,
    last_best_move,
    best_pv,
    best_eval,
    info,                   \* the update last taken from the stream
    analysis_result,
    outcome,                \* how the call ended: "none", "fixed", "stable", "timeout",
                            \* "exhausted", "aborted"
    searching,              \* an oracle search of this call is in flight
    \* history of the stream, kept for the properties only
    hist_lead,              \* leading move of the last usable update
    hist_change_time,       \* when the leading move of the stream last changed
    \* analyze_specific_move
    duration_seconds,
    actual_move,
    actual_move_eval,
    last_pv,
    last_eval

apiVars == <<ANALYSIS_MODE, engine, op, pc, error, oracle_requests>>

gameVars == <<game, ply_index, move_number, time_limit, current_analysis, moves_analysis>>

worstVars == <<analysis, worst_moves>>

evalVars == <<infos, evaluations>>

posVars == <<position_time_limit, now, start_time, last_change_time, last_best_move,
             best_pv, best_eval, info, analysis_result, outcome, searching,
             hist_lead, hist_change_time>>

deepVars == <<duration_seconds, actual_move, actual_move_eval, last_pv, last_eval>>

vars == <<apiVars, gameVars, worstVars, evalVars, posVars, deepVars>>

NoVerdict == [best_move |-> NoMove, evaluation |-> None,
              principal_variation |-> << >>, time_taken |-> 0]

NoInfo == [pv |-> << >>, score |-> NoScore]

NoGame == [total_moves |-> 0, over_after |-> 0]

Init ==
    /\ ANALYSIS_MODE \in {"stability", "time"}
    /\ engine = FALSE
    /\ op = "idle"
    /\ pc = "idle"
    /\ error = "none"
    /\ oracle_requests = 0
    /\ game = NoGame
    /\ ply_index = 0
    /\ move_number = 1
    /\ time_limit = 0
    /\ current_analysis = NoVerdict
    /\ moves_analysis = << >>
    /\ analysis = << >>
    /\ worst_moves = << >>
    /\ infos = << >>
    /\ evaluations = << >>
    /\ position_time_limit = 0
    /\ now = 0
    /\ start_time = 0
    /\ last_change_time = 0
    /\ last_best_move = NoMove
    /\ best_pv = << >>
    /\ best_eval = None
    /\ info = NoInfo
    /\ analysis_result = NoVerdict
    /\ outcome = "none"
    /\ searching = FALSE
    /\ hist_lead = NoMove
    /\ hist_change_time = 0
    /\ duration_seconds = 0
    /\ actual_move = NoMove
    /\ actual_move_eval = None
    /\ last_pv = << >>
    /\ last_eval = None

\* The defect of leaving out the engine check.
EngineNeverMissing == FALSE

\* "if not self.engine", the first statement of every analysis method.
EngineMissing == ~engine

\* __enter__: popen_uci starts the engine.
Enter ==
    /\ op = "idle"
    /\ ~engine
    /\ engine' = TRUE
    /\ UNCHANGED <<ANALYSIS_MODE, op, pc, error, oracle_requests>>
    /\ UNCHANGED <<gameVars, worstVars, evalVars, posVars, deepVars>>

\* ------------------------------------------------- _extract_evaluation
Infos == [pv : PVs, score : Scores]

\* Two updates of the oracle are normalised.
ExtractEvaluations ==
    /\ op = "idle"
    /\ \E i1 \in Infos, i2 \in Infos :
         /\ i1.pv = i2.pv
         /\ infos' = <<i1, i2>>
         /\ evaluations' = <<ExtractEvaluation(i1), ExtractEvaluation(i2)>>
    /\ op' = "_extract_evaluation"
    /\ pc' = "done"
    /\ UNCHANGED <<ANALYSIS_MODE, engine, error, oracle_requests>>
    /\ UNCHANGED <<gameVars, worstVars, posVars, deepVars>>

\* ------------------------------------------------------ find_worst_moves
WorstBefore == {None, Some(0), Some(10), Some(15)}

WorstChange == {None, Some(-27), Some(-3), Some(2)}

\* MoveRecord sequences of n records; a record's ply_index is its place.
RecordSeqs(n) ==
    {[i \in 1 .. n |-> [ply_index |-> i - 1, eval_before |-> f[i][1], eval_change |-> f[i][2]]] :
        f \in [1 .. n -> WorstBefore \X WorstChange]}

CallFindWorstMoves ==
    /\ op = "idle"
    /\ \E n \in 0 .. MaxRecords : \E a \in RecordSeqs(n) : analysis' = a
    /\ op' = "find_worst_moves"
    /\ pc' = "called"
    /\ UNCHANGED <<ANALYSIS_MODE, engine, error, oracle_requests, worst_moves>>
    /\ UNCHANGED <<gameVars, evalVars, posVars, deepVars>>

\* The defect of filtering the caller's list in place.
InputFilteredInPlace(analysis_) == Filter(analysis_)

\* Lines 173-180: the comprehension builds a new list and the sort works on
\* that list; the list passed in is only read.
InputAfterCall(analysis_) == analysis_

ReturnWorstMoves ==
    /\ op = "find_worst_moves"
    /\ pc = "called"
    /\ worst_moves' = FindWorstMoves(analysis)
    /\ analysis' = InputAfterCall(analysis)
    /\ pc' = "done"
    /\ UNCHANGED <<ANALYSIS_MODE, engine, op, error, oracle_requests>>
    /\ UNCHANGED <<gameVars, evalVars, posVars, deepVars>>

\* ---------------------------------------------------------- analyze_game
\* The games analysed: total_moves plies in the mainline; over_after = k > 0
\* says the position after k plies is the first one with is_game_over(),
\* over_after = 0 that no position of the game is.  White moves first.
Games == {g \in [total_moves : 0 .. MaxPlies, over_after : 0 .. MaxPlies] :
            g.over_after <= g.total_moves}

\* What the oracle answers inside analyze_game.
GameInfos == [pv : {<< >>, <<"m1">>}, score : {NoScore, Cp(-300), Cp(1500)}]

GameTimes == {0, 11}

\* The verdicts analyze_position can return for a budget: the time-based
\* branch builds one from the single info of engine.analyse, the stability
\* branch returns the tracked state, which is empty or the state set from
\* one usable update.
AnalyzePositionResults(mode, time_limit_) ==
    IF UseStability(mode, time_limit_)
    THEN {StabilityResult(NoMove, None, << >>, t) : t \in GameTimes}
         \cup {StabilityResult(i.pv[1], ExtractEvaluation(i), i.pv, t) :
                 i \in {j \in GameInfos : j.pv # << >>}, t \in GameTimes}
    ELSE {FixedResult(i, t) : i \in GameInfos, t \in GameTimes}

\* Lines 60-77: the engine check, then the locals.
CallAnalyzeGame ==
    /\ op = "idle"
    /\ op' = "analyze_game"
    /\ IF EngineMissing
       THEN /\ error' = "RuntimeError"
            /\ pc' = "raised"
            /\ UNCHANGED game
       ELSE /\ \E g \in Games : game' = g
            /\ pc' = "initial"
            /\ UNCHANGED error
    /\ ply_index' = 0
    /\ move_number' = 1
    /\ moves_analysis' = << >>
    /\ UNCHANGED <<ANALYSIS_MODE, engine, oracle_requests, time_limit, current_analysis>>
    /\ UNCHANGED <<worstVars, evalVars, posVars, deepVars>>

\* Line 80: the initial position, at the quick budget.  With no move in the
\* mainline the loop body never runs and the empty list is returned.
AnalyzeInitialPosition ==
    /\ op = "analyze_game"
    /\ pc = "initial"
    /\ \E v \in AnalyzePositionResults(ANALYSIS_MODE, QUICK_ANALYSIS_TIME) :
         current_analysis' = v
    /\ oracle_requests' = oracle_requests + 1
    /\ pc' = IF game.total_moves = 0 THEN "done" ELSE "loop"
    /\ UNCHANGED <<ANALYSIS_MODE, engine, op, error>>
    /\ UNCHANGED <<game, ply_index, move_number, time_limit, moves_analysis>>
    /\ UNCHANGED <<worstVars, evalVars, posVars, deepVars>>

\* The dictionary move_data (without the move, its notation and the board
\* encodings, which come from the rules engine).
MoveData(eval_before, next_analysis) ==
    [move_number |-> move_number,
     player |-> IF ply_index % 2 = 0 THEN "White" ELSE "Black",
     eval_before |-> eval_before,
     eval_after |-> next_analysis.evaluation,
     eval_change |-> CalculateEvalChange(eval_before, next_analysis.evaluation),
     ply_index |-> ply_index,
     time_taken_before |-> current_analysis.time_taken,
     time_taken_after |-> next_analysis.time_taken,
     position_analysis |-> current_analysis]

\* The defect of analysing the position before the move again at each ply.
RequestsOfPlyWithPreMove(oracle_requests_) == oracle_requests_ + 2

\* Line 104: the one call of analyze_position in an iteration, for the
\* position after the move; a call makes one request to the oracle.
RequestsOfPly(oracle_requests_) == oracle_requests_ + 1

\* The defect of keeping the verdict of the initial position.
RunningVerdictKept(current_analysis_, next_analysis) == current_analysis_

\* Line 127: current_analysis = next_analysis.
RunningVerdict(current_analysis_, next_analysis) == next_analysis

\* The defect of never looking at the position reached.
IsGameOverNever(game_, plies_played) == FALSE

\* Line 130: board.is_game_over(), for the position after plies_played plies.
IsGameOver(game_, plies_played) == game_.over_after = plies_played

\* Lines 82-136: one iteration of the loop over the mainline, and the return
\* when it was the last one.  Line 85 renders the move with board.san, which
\* raises for a move that is not legal in the position (a Game built by hand;
\* the PGN reader keeps legal moves only); no handler surrounds it.
AnalyzePly ==
    /\ op = "analyze_game"
    /\ pc = "loop"
    /\ \E renders \in BOOLEAN :
         IF ~renders
         THEN /\ pc' = "raised"
              /\ error' = "IllegalMoveError"
              /\ UNCHANGED <<oracle_requests, ply_index, move_number, time_limit,
                             current_analysis, moves_analysis>>
         ELSE LET eval_before == current_analysis.evaluation
                  budget == TimeLimitForPly(ply_index, eval_before)
                  is_game_over == IsGameOver(game, ply_index + 1)
              IN  /\ time_limit' = budget
                  /\ \E next_analysis \in AnalyzePositionResults(ANALYSIS_MODE, budget) :
                       /\ moves_analysis' =
                            Append(moves_analysis, MoveData(eval_before, next_analysis))
                       /\ current_analysis' = RunningVerdict(current_analysis, next_analysis)
                  /\ ply_index' = ply_index + 1
                  /\ move_number' = IF ~is_game_over /\ (ply_index + 1) % 2 = 0
                                    THEN move_number + 1
                                    ELSE move_number
                  /\ pc' = IF is_game_over \/ ply_index + 1 = game.total_moves
                           THEN "done"
                           ELSE "loop"
                  /\ oracle_requests' = RequestsOfPly(oracle_requests)
                  /\ UNCHANGED error
    /\ UNCHANGED <<ANALYSIS_MODE, engine, op, game>>
    /\ UNCHANGED <<worstVars, evalVars, posVars, deepVars>>

\* ------------------------------------------------------ analyze_position
\* The budgets analyze_position is called with: the two of analyze_game and
\* the one of analyze_specific_move.
TimeLimits == {QUICK_ANALYSIS_TIME, TIME_LIMIT, ACTUAL_MOVE_TIME}

\* What the oracle streams for one position.
PositionInfos == [pv : PVs, score : {NoScore, Cp(100), Cp(-300)}]

\* Seconds that pass while the analyzer waits for the oracle.
Delays == {0, 1, STABILITY_THRESHOLD \div 2, STABILITY_THRESHOLD}

\* The defect of comparing with > instead of >=.
StableLongEnoughStrict(current_time, last_change_time_) ==
    current_time - last_change_time_ > STABILITY_THRESHOLD

\* Line 260: the quiet period is over.
StableLongEnough(current_time, last_change_time_) ==
    current_time - last_change_time_ >= STABILITY_THRESHOLD

\* The defect of not resetting the timer on a best-move change.
ChangeTimeKept(current_time, last_change_time_) == last_change_time_

\* Line 226: the time of a best-move change.
ChangeTime(current_time, last_change_time_) == current_time

\* The defect of keeping the old variation when the best move changes.
TrackedVariationKept(current_pv, best_pv_) == best_pv_

\* Line 227: best_pv = list(current_pv), on a change of the best move.
TrackedVariation(current_pv, best_pv_) == current_pv

\* The defect of taking an update without a variation line for a change.
SkippedUpdateResetsTimer(current_time, last_change_time_) == current_time

\* Lines 216-217 and 369-370: "if not current_pv: continue" assigns nothing,
\* and the time of the last change stays what it was.
SkippedUpdate(current_time, last_change_time_) == last_change_time_

\* The defect of leaving the streaming loop with the search still running.
SearchKeptRunning(searching_) == searching_

\* Lines 212 and 363: the stream is the context manager of a `with` block,
\* and leaving the block, by break, by the end of the stream or by an
\* exception, stops the search.
SearchStopped(searching_) == FALSE

\* Lines 195-212 (and 280): the engine check, then the request to the oracle.
CallAnalyzePosition ==
    /\ op = "idle"
    /\ op' = "analyze_position"
    /\ \E tl \in TimeLimits : position_time_limit' = tl
    /\ IF EngineMissing
       THEN /\ error' = "RuntimeError"
            /\ pc' = "raised"
            /\ UNCHANGED <<oracle_requests, searching>>
       ELSE /\ pc' = IF UseStability(ANALYSIS_MODE, position_time_limit')
                    THEN "stream"
                    ELSE "analyse"
            /\ oracle_requests' = oracle_requests + 1
            /\ searching' = TRUE
            /\ UNCHANGED error
    /\ start_time' = now
    /\ last_change_time' = now
    /\ last_best_move' = NoMove
    /\ best_pv' = << >>
    /\ best_eval' = None
    /\ UNCHANGED <<ANALYSIS_MODE, engine, now, info, analysis_result, outcome,
                   hist_lead, hist_change_time>>
    /\ UNCHANGED <<gameVars, worstVars, evalVars, deepVars>>

\* Where analyze_position returns to: its caller is the user, or line 339 of
\* analyze_specific_move.
AfterPosition == IF op = "analyze_position" THEN "done" ELSE "baseline"

\* Lines 280-299: engine.analyse returns its one info.
FixedReturn ==
    /\ op \in {"analyze_position", "analyze_specific_move"}
    /\ pc = "analyse"
    /\ \E d \in Delays, i \in PositionInfos :
         /\ now' = now + d
         /\ info' = i
         /\ analysis_result' = FixedResult(i, now' - start_time)
    /\ outcome' = "fixed"
    /\ searching' = FALSE
    /\ pc' = AfterPosition
    /\ UNCHANGED <<ANALYSIS_MODE, engine, op, error, oracle_requests>>
    /\ UNCHANGED <<position_time_limit, start_time, last_change_time, last_best_move,
                   best_pv, best_eval, hist_lead, hist_change_time>>
    /\ UNCHANGED <<gameVars, worstVars, evalVars, deepVars>>

\* Lines 213-268: the loop body for one update of the stream; on the break,
\* lines 270-277 and the return as well.
StreamUpdate ==
    /\ op \in {"analyze_position", "analyze_specific_move"}
    /\ pc = "stream"
    /\ \E d \in Delays, i \in PositionInfos :
         /\ now + d <= MaxTime
         /\ now' = now + d
         /\ info' = i
         /\ IF i.pv = << >>
            THEN /\ last_change_time' = SkippedUpdate(now', last_change_time)
                 /\ UNCHANGED <<last_best_move, best_pv, best_eval>>
                 /\ UNCHANGED <<analysis_result, outcome, searching, pc>>
                 /\ UNCHANGED <<hist_lead, hist_change_time>>
            ELSE /\ hist_lead' = i.pv[1]
                 /\ hist_change_time' = IF i.pv[1] # hist_lead THEN now' ELSE hist_change_time
                 /\ IF i.pv[1] # last_best_move
                    THEN /\ last_best_move' = i.pv[1]
                         /\ last_change_time' = ChangeTime(now', last_change_time)
                         /\ best_pv' = TrackedVariation(i.pv, best_pv)
                         /\ best_eval' = ExtractEvaluation(i)
                         /\ UNCHANGED <<analysis_result, outcome, searching, pc>>
                    ELSE IF StableLongEnough(now', last_change_time)
                         THEN /\ analysis_result' =
                                   StabilityResult(last_best_move, best_eval, best_pv,
                                                   now' - start_time)
                              /\ outcome' = "stable"
                              /\ searching' = SearchStopped(searching)
                              /\ pc' = AfterPosition
                              /\ UNCHANGED <<last_best_move, last_change_time, best_pv, best_eval>>
                         ELSE /\ best_pv' = i.pv
                              /\ best_eval' = ExtractEvaluation(i)
                              /\ UNCHANGED <<last_best_move, last_change_time>>
                              /\ UNCHANGED <<analysis_result, outcome, searching, pc>>
    /\ UNCHANGED <<ANALYSIS_MODE, engine, op, error, oracle_requests>>
    /\ UNCHANGED <<position_time_limit, start_time>>
    /\ UNCHANGED <<gameVars, worstVars, evalVars, deepVars>>

\* The stream ends by itself: the for loop is left, then lines 270-277.
StreamEnd ==
    /\ op \in {"analyze_position", "analyze_specific_move"}
    /\ pc = "stream"
    /\ \E d \in Delays :
         /\ now + d <= MaxTime
         /\ now' = now + d
    /\ analysis_result' = StabilityResult(last_best_move, best_eval, best_pv, now' - start_time)
    /\ outcome' = "exhausted"
    /\ searching' = SearchStopped(searching)
    /\ pc' = AfterPosition
    /\ UNCHANGED <<ANALYSIS_MODE, engine, op, error, oracle_requests>>
    /\ UNCHANGED <<position_time_limit, start_time, last_change_time, last_best_move,
                   best_pv, best_eval, info, hist_lead, hist_change_time>>
    /\ UNCHANGED <<gameVars, worstVars, evalVars, deepVars>>

\* Line 213 raises while the stream is iterated (the engine fails): the
\* `with` block is left through the exception.  Out of analyze_position it
\* propagates to the caller; inside analyze_specific_move the bare except of
\* lines 344-345 swallows it.
StreamAbort ==
    /\ op \in {"analyze_position", "analyze_specific_move"}
    /\ pc = "stream"
    /\ outcome' = "aborted"
    /\ searching' = SearchStopped(searching)
    /\ IF op = "analyze_position"
       THEN /\ pc' = "raised"
            /\ error' = "EngineError"
       ELSE /\ pc' = "baseline"
            /\ UNCHANGED error
    /\ UNCHANGED <<ANALYSIS_MODE, engine, op, oracle_requests>>
    /\ UNCHANGED <<position_time_limit, now, start_time, last_change_time, last_best_move,
                   best_pv, best_eval, info, analysis_result, hist_lead, hist_change_time>>
    /\ UNCHANGED <<gameVars, worstVars, evalVars, deepVars>>

\* ------------------------------------------------ analyze_specific_move
\* The caller's duration bound, in seconds.
Durations == {5}

\* Lines 313-345 up to the first request: the engine check; with a move
\* played, analyze_position is entered for the position after it (its own
\* engine check passes); without one the streaming loop is set up at once
\* (lines 347-363).
CallAnalyzeSpecificMove ==
    /\ op = "idle"
    /\ op' = "analyze_specific_move"
    /\ \E dur \in Durations : duration_seconds' = dur
    /\ \E m \in {NoMove, "m1"} : actual_move' = m
    /\ IF EngineMissing
       THEN /\ error' = "RuntimeError"
            /\ pc' = "raised"
            /\ UNCHANGED <<oracle_requests, searching, position_time_limit>>
       ELSE /\ IF actual_move' # NoMove
               THEN /\ position_time_limit' = ACTUAL_MOVE_TIME
                    /\ pc' = IF UseStability(ANALYSIS_MODE, ACTUAL_MOVE_TIME)
                             THEN "stream"
                             ELSE "analyse"
               ELSE /\ pc' = "deep_stream"
                    /\ UNCHANGED position_time_limit
            /\ oracle_requests' = oracle_requests + 1
            /\ searching' = TRUE
            /\ UNCHANGED error
    /\ start_time' = now
    /\ last_change_time' = now
    /\ last_best_move' = NoMove
    /\ best_pv' = << >>
    /\ best_eval' = None
    /\ UNCHANGED <<ANALYSIS_MODE, engine, now, info, analysis_result, outcome,
                   hist_lead, hist_change_time>>
    /\ UNCHANGED <<actual_move_eval, last_pv, last_eval>>
    /\ UNCHANGED <<gameVars, worstVars, evalVars>>

\* Lines 340-363: the baseline is the negated evaluation of the move played,
\* or stays None when there is none or the evaluation raised; then the
\* locals of the loop are set and the stream is requested.  The frame of
\* analyze_position is gone, and the clock is read from zero again.
BeginDeepStream ==
    /\ op = "analyze_specific_move"
    /\ pc = "baseline"
    /\ actual_move_eval' = IF outcome # "aborted" /\ analysis_result.evaluation # None
                           THEN Some(-analysis_result.evaluation[1])
                           ELSE None
    /\ now' = 0
    /\ start_time' = 0
    /\ last_change_time' = 0
    /\ last_best_move' = NoMove
    /\ last_pv' = << >>
    /\ last_eval' = None
    /\ best_pv' = << >>
    /\ best_eval' = None
    /\ info' = NoInfo
    /\ analysis_result' = NoVerdict
    /\ outcome' = "none"
    /\ hist_lead' = NoMove
    /\ hist_change_time' = 0
    /\ oracle_requests' = oracle_requests + 1
    /\ searching' = TRUE
    /\ pc' = "deep_stream"
    /\ UNCHANGED <<ANALYSIS_MODE, engine, op, error, position_time_limit>>
    /\ UNCHANGED <<duration_seconds, actual_move>>
    /\ UNCHANGED <<gameVars, worstVars, evalVars>>

\* Lines 443-467, after the loop: the final report formats last_eval with
\* "+.2f", which raises TypeError for None.
DeepExit(last_pv_, last_eval_) ==
    IF last_pv_ # << >> /\ last_eval_ = None
    THEN [pc |-> "raised", error |-> "TypeError"]
    ELSE [pc |-> "done", error |-> "none"]

\* Lines 364-441: the loop body for one update; when it breaks, the rest of
\* the method as well.
DeepUpdate ==
    /\ op = "analyze_specific_move"
    /\ pc = "deep_stream"
    /\ \E d \in Delays, i \in PositionInfos :
         /\ now + d <= MaxTime
         /\ now' = now + d
         /\ info' = i
         /\ IF i.pv = << >>
            THEN /\ last_change_time' = SkippedUpdate(now', last_change_time)
                 /\ UNCHANGED <<last_pv, last_eval, last_best_move>>
                 /\ UNCHANGED <<hist_lead, hist_change_time>>
                 /\ UNCHANGED <<pc, error, outcome, searching>>
            ELSE LET best_move_changed == last_pv = << >> \/ i.pv[1] # last_best_move
                     stable == /\ ~best_move_changed
                               /\ ANALYSIS_MODE = "stability"
                               /\ StableLongEnough(now', last_change_time)
                     timed_out == /\ ANALYSIS_MODE = "time"
                                  /\ now' - start_time > duration_seconds
                     exit == DeepExit(i.pv, ExtractEvaluation(i))
                 IN  /\ hist_lead' = i.pv[1]
                     /\ hist_change_time' = IF i.pv[1] # hist_lead THEN now'
                                            ELSE hist_change_time
                     /\ last_pv' = i.pv
                     /\ last_eval' = ExtractEvaluation(i)
                     /\ last_best_move' = i.pv[1]
                     /\ last_change_time' = IF best_move_changed
                                            THEN ChangeTime(now', last_change_time)
                                            ELSE last_change_time
                     /\ IF stable \/ timed_out
                        THEN /\ outcome' = IF stable THEN "stable" ELSE "timeout"
                             /\ searching' = SearchStopped(searching)
                             /\ pc' = exit.pc
                             /\ error' = exit.error
                        ELSE UNCHANGED <<pc, error, outcome, searching>>
    /\ UNCHANGED <<ANALYSIS_MODE, engine, op, oracle_requests>>
    /\ UNCHANGED <<position_time_limit, start_time, best_pv, best_eval, analysis_result>>
    /\ UNCHANGED <<duration_seconds, actual_move, actual_move_eval>>
    /\ UNCHANGED <<gameVars, worstVars, evalVars>>

\* The stream ends by itself (in time mode, when the oracle's limit is
\* reached): the loop is left, then lines 443-467.
DeepStreamEnd ==
    /\ op = "analyze_specific_move"
    /\ pc = "deep_stream"
    /\ \E d \in Delays :
         /\ now + d <= MaxTime
         /\ now' = now + d
    /\ outcome' = "exhausted"
    /\ searching' = SearchStopped(searching)
    /\ pc' = DeepExit(last_pv, last_eval).pc
    /\ error' = DeepExit(last_pv, last_eval).error
    /\ UNCHANGED <<ANALYSIS_MODE, engine, op, oracle_requests>>
    /\ UNCHANGED <<position_time_limit, start_time, last_change_time, last_best_move,
                   best_pv, best_eval, info, analysis_result, hist_lead, hist_change_time>>
    /\ UNCHANGED <<duration_seconds, actual_move, actual_move_eval, last_pv, last_eval>>
    /\ UNCHANGED <<gameVars, worstVars, evalVars>>

\* Line 364 raises while the stream is iterated: the `with` block of line
\* 363 is left through the exception, which propagates to the caller.
DeepStreamAbort ==
    /\ op = "analyze_specific_move"
    /\ pc = "deep_stream"
    /\ outcome' = "aborted"
    /\ searching' = SearchStopped(searching)
    /\ pc' = "raised"
    /\ error' = "EngineError"
    /\ UNCHANGED <<ANALYSIS_MODE, engine, op, oracle_requests>>
    /\ UNCHANGED <<position_time_limit, now, start_time, last_change_time, last_best_move,
                   best_pv, best_eval, info, analysis_result, hist_lead, hist_change_time>>
    /\ UNCHANGED <<duration_seconds, actual_move, actual_move_eval, last_pv, last_eval>>
    /\ UNCHANGED <<gameVars, worstVars, evalVars>>

\* ------------------------------------------------------- specifications
EvalNext == ExtractEvaluations

WorstNext == CallFindWorstMoves \/ ReturnWorstMoves

GameNext == Enter \/ CallAnalyzeGame \/ AnalyzeInitialPosition \/ AnalyzePly

PositionNext == Enter \/ CallAnalyzePosition \/ FixedReturn \/ StreamUpdate \/ StreamEnd
                \/ StreamAbort

DeepNext == Enter \/ CallAnalyzeSpecificMove \/ FixedReturn \/ StreamUpdate \/ StreamEnd
            \/ StreamAbort \/ BeginDeepStream \/ DeepUpdate \/ DeepStreamEnd
            \/ DeepStreamAbort

Next == Enter \/ ExtractEvaluations \/ CallFindWorstMoves \/ ReturnWorstMoves
        \/ CallAnalyzeGame \/ AnalyzeInitialPosition \/ AnalyzePly
        \/ CallAnalyzePosition \/ FixedReturn \/ StreamUpdate \/ StreamEnd
        \/ CallAnalyzeSpecificMove \/ BeginDeepStream \/ DeepUpdate \/ DeepStreamEnd
        \/ StreamAbort \/ DeepStreamAbort

\* _extract_evaluation on pairs of updates
SpecEval == Init /\ [][EvalNext]_vars

\* find_worst_moves on MoveRecord sequences
SpecWorst == Init /\ [][WorstNext]_vars

\* analyze_game
SpecGame == Init /\ [][GameNext]_vars

\* analyze_position
SpecPosition == Init /\ [][PositionNext]_vars

\* analyze_specific_move
SpecDeep == Init /\ [][DeepNext]_vars

\* every operation of GameAnalyzer
Spec == Init /\ [][Next]_vars

\* ================================================================ claims

\* ---------------------------------------------------------------------
\* C1.  The swing of every MoveRecord analyze_game emits is absent if and
\* only if eval_before or eval_after is absent, and otherwise equals
\* (-eval_after) - eval_before; it is never defaulted to zero.
C1_SwingOfEveryRecord ==
    \A k \in 1 .. Len(moves_analysis) :
        LET r == moves_analysis[k]
        IN  /\ (r.eval_change = None) <=> (r.eval_before = None \/ r.eval_after = None)
            /\ r.eval_change # None =>
                 r.eval_change[1] = (0 - r.eval_after[1]) - r.eval_before[1]

\* A game with a record whose swing is absent and a record whose swing is
\* present and not zero.
C1_Witness ==
    /\ op = "analyze_game"
    /\ pc = "done"
    /\ Len(moves_analysis) >= 2
    /\ moves_analysis[1].eval_change = None
    /\ moves_analysis[2].eval_before = Some(15)
    /\ moves_analysis[2].eval_after = Some(15)
    /\ moves_analysis[2].eval_change = Some(-30)

\* ---------------------------------------------------------------------
\* The two mate scores normalised, when the updates are mates of the same
\* sign with the first one closer.
MatePairCloserFirst ==
    /\ op = "_extract_evaluation"
    /\ infos[1].score.kind = "mate"
    /\ infos[2].score.kind = "mate"
    /\ infos[1].score.v * infos[2].score.v > 0
    /\ Abs(infos[1].score.v) < Abs(infos[2].score.v)

\* C2 as claimed.  For mate distances N < M of the same sign the closer
\* mate maps to a strictly larger magnitude.
C2_StrictlyMonotonic ==
    MatePairCloserFirst => Abs(evaluations[1][1]) > Abs(evaluations[2][1])

\* C2 as amended.  For mate distances N < M <= 1000 of the same sign the
\* closer mate maps to a magnitude that is at least as large, and every
\* distance up to 901 maps to magnitude 99 exactly, so that mate-in-1 and
\* mate-in-5 are equal.
C2_WeaklyMonotonic ==
    MatePairCloserFirst =>
        /\ Abs(evaluations[1][1]) >= Abs(evaluations[2][1])
        /\ Abs(infos[2].score.v) <= 901 =>
             /\ Abs(evaluations[1][1]) = 99
             /\ Abs(evaluations[2][1]) = 99

\* Mate-in-1 and mate-in-5 both normalised to +99.
C2_Witness ==
    /\ op = "_extract_evaluation"
    /\ infos[1].score = Mate(1)
    /\ infos[2].score = Mate(5)
    /\ evaluations = <<Some(99), Some(99)>>

\* ---------------------------------------------------------------------
\* C3 as claimed.  Every evaluation _extract_evaluation produces is absent
\* or lies in [-99, 99], and is absent exactly when the update has no score.
C3_AlwaysBounded ==
    op = "_extract_evaluation" =>
        \A k \in 1 .. 2 :
            /\ (evaluations[k] = None) <=> (infos[k].score.kind = "none")
            /\ evaluations[k] # None =>
                 (evaluations[k][1] >= -99 /\ evaluations[k][1] <= 99)

\* C3 as amended.  The evaluation is absent exactly when the update has no
\* score (never 0); a mate score of any distance up to 1000, 0 included,
\* lies in [-99, 99]; a centipawn score is cp / 100 unclamped, so it lies in
\* [-99, 99] exactly when |cp| <= 9900.
C3_BoundedForMates ==
    op = "_extract_evaluation" =>
        \A k \in 1 .. 2 :
            /\ (evaluations[k] = None) <=> (infos[k].score.kind = "none")
            /\ infos[k].score.kind = "mate" =>
                 (evaluations[k][1] >= -99 /\ evaluations[k][1] <= 99)
            /\ infos[k].score.kind = "cp" =>
                 /\ evaluations[k][1] * 100 = infos[k].score.v
                 /\ (evaluations[k][1] >= -99 /\ evaluations[k][1] <= 99)
                      <=> Abs(infos[k].score.v) <= 9900

\* A centipawn score of 10000 normalised to 100 pawns, next to an update
\* without a score normalised to absent.
C3_Witness ==
    /\ op = "_extract_evaluation"
    /\ infos[1].score = Cp(10000)
    /\ evaluations[1] = Some(100)
    /\ infos[2].score = NoScore
    /\ evaluations[2] = None

\* ---------------------------------------------------------------------
\* C4.  The budget analyze_game grants for the position after ply p, with
\* pre-move evaluation e, is the quick budget if p < QUICK_ANALYSIS_PLY or e
\* is present with |e| > GAME_OVER_EVAL_THRESHOLD, and the deep budget
\* otherwise; every ply index below the threshold, the last one included,
\* gets the quick budget.
C4_QuickBelowThreshold ==
    (op = "analyze_game" /\ moves_analysis # << >>) =>
        LET r == moves_analysis[Len(moves_analysis)]
            decided == r.eval_before # None
                       /\ Abs(r.eval_before[1]) > GAME_OVER_EVAL_THRESHOLD
        IN  time_limit = IF r.ply_index < QUICK_ANALYSIS_PLY \/ decided
                         THEN QUICK_ANALYSIS_TIME
                         ELSE TIME_LIMIT

\* ---------------------------------------------------------------------
\* The MoveRecords find_worst_moves may return: swing present, pre-move
\* evaluation absent or within the decided-threshold.
Eligible(m) ==
    /\ m.eval_change # None
    /\ (m.eval_before = None \/ Abs(m.eval_before[1]) <= GAME_OVER_EVAL_THRESHOLD)

WorstMovesReturned == op = "find_worst_moves" /\ pc = "done"

\* C5.  The output of find_worst_moves is sorted ascending by swing, has at
\* most TOP_N records, and every returned record has a present swing and a
\* pre-move evaluation that is absent or of magnitude <= the threshold.
C5_SortedBoundedEligible ==
    WorstMovesReturned =>
        /\ Len(worst_moves) <= TOP_N
        /\ \A i \in 1 .. Len(worst_moves) : Eligible(worst_moves[i])
        /\ \A i \in 1 .. Len(worst_moves) : \A j \in i .. Len(worst_moves) :
             worst_moves[i].eval_change[1] <= worst_moves[j].eval_change[1]

\* The most negative swing of the input (-27) belongs to a record with
\* pre-move evaluation +15, which is left out of a non-empty output.
C5_Witness ==
    /\ WorstMovesReturned
    /\ Len(analysis) = 3
    /\ analysis[2].eval_before = Some(15)
    /\ analysis[2].eval_change = Some(-27)
    /\ analysis[1].eval_change = Some(-3)
    /\ analysis[3].eval_change = Some(2)
    /\ Len(worst_moves) = 2
    /\ \A i \in 1 .. Len(worst_moves) : worst_moves[i].ply_index # 1

\* ---------------------------------------------------------------------
\* The ply indexes of a MoveRecord sequence.
PlyIndexes(s) == {s[i].ply_index : i \in 1 .. Len(s)}

\* C6.  The output has min(TOP_N, number of eligible records) records, every
\* eligible record left out has a swing >= the swing of every returned
\* record, and an eligible record whose swing is strictly the most negative
\* is ranked first.
C6_MostDamagingReturned ==
    WorstMovesReturned =>
        LET eligible == {i \in 1 .. Len(analysis) : Eligible(analysis[i])}
        IN  /\ Len(worst_moves) = Min(TOP_N, Cardinality(eligible))
            /\ \A i \in eligible :
                 analysis[i].ply_index \notin PlyIndexes(worst_moves) =>
                   \A j \in 1 .. Len(worst_moves) :
                     analysis[i].eval_change[1] >= worst_moves[j].eval_change[1]
            /\ \A i \in eligible :
                 (\A k \in eligible \ {i} :
                     analysis[i].eval_change[1] < analysis[k].eval_change[1])
                 => worst_moves[1] = analysis[i]

\* Three eligible records, more than TOP_N; the last one has the strictly
\* most negative swing and is ranked first, the best one is cut.
C6_Witness ==
    /\ WorstMovesReturned
    /\ Len(analysis) = 3
    /\ \A i \in 1 .. 3 : Eligible(analysis[i])
    /\ analysis[1].eval_change = Some(2)
    /\ analysis[2].eval_change = Some(-3)
    /\ analysis[3].eval_change = Some(-27)
    /\ Len(worst_moves) = 2
    /\ worst_moves[1].ply_index = 2
    /\ worst_moves[2].ply_index = 1

\* ---------------------------------------------------------------------
\* C7.  Two returned records with equal swing appear in the order of their
\* plies in the input.
C7_TiesKeepPlyOrder ==
    WorstMovesReturned =>
        \A i \in 1 .. Len(worst_moves) : \A j \in (i + 1) .. Len(worst_moves) :
            worst_moves[i].eval_change = worst_moves[j].eval_change
            => worst_moves[i].ply_index < worst_moves[j].ply_index

\* Two records of equal swing are returned, after a record of a larger
\* swing that came first in the input was sorted behind them and cut.
C7_Witness ==
    /\ WorstMovesReturned
    /\ Len(analysis) = 3
    /\ analysis[1].eval_change = Some(2)
    /\ analysis[2].eval_change = Some(-3)
    /\ analysis[3].eval_change = Some(-3)
    /\ Len(worst_moves) = 2
    /\ worst_moves[1].ply_index = 1
    /\ worst_moves[2].ply_index = 2

\* ---------------------------------------------------------------------
\* A step of the stability loop of analyze_position that takes one update
\* from the stream (the step that ends the stream is the other one).
TakesUpdate ==
    /\ op = "analyze_position"
    /\ pc = "stream"
    /\ outcome' \notin {"exhausted", "aborted"}

\* The update taken is usable and leads with the tracked best move.
SameLeadingMove ==
    /\ info'.pv # << >>
    /\ last_best_move # NoMove
    /\ info'.pv[1] = last_best_move

\* C8.  In stability mode the detector stops at the first usable update with
\* an unchanged leading move that is processed when the time since the last
\* best-move change is >= STABILITY_THRESHOLD; it then takes no further
\* update, and the elapsed time it reports is >= STABILITY_THRESHOLD.
C8_StopsAtQuietPeriod ==
    /\ [][(TakesUpdate /\ SameLeadingMove
           /\ now' - last_change_time >= STABILITY_THRESHOLD)
          => (/\ pc' = "done"
              /\ outcome' = "stable"
              /\ ~searching'
              /\ analysis_result'.time_taken >= STABILITY_THRESHOLD)]_vars
    /\ [][(op = "analyze_position" /\ pc = "done") => (info' = info /\ now' = now)]_vars
    /\ []((op = "analyze_position" /\ outcome = "stable")
          => analysis_result.time_taken >= STABILITY_THRESHOLD)

\* The detector has converged exactly STABILITY_THRESHOLD seconds after the
\* only usable lead arrived, 1 s into the search: 11 s are reported.
C8_Witness ==
    /\ op = "analyze_position"
    /\ pc = "done"
    /\ outcome = "stable"
    /\ last_change_time = 1
    /\ hist_change_time = 1
    /\ now = 1 + STABILITY_THRESHOLD
    /\ analysis_result.time_taken = 1 + STABILITY_THRESHOLD
    /\ analysis_result.best_move = "m1"

\* ---------------------------------------------------------------------
\* C9.  The detector never converges while less than STABILITY_THRESHOLD
\* seconds have passed since the leading move of the stream last changed,
\* and every usable update whose leading move differs from the tracked best
\* move resets "last change time" to now and leaves the loop running.
C9_NoConvergenceWhileChanging ==
    /\ []((op = "analyze_position" /\ outcome = "stable")
          => now - hist_change_time >= STABILITY_THRESHOLD)
    /\ [][(TakesUpdate /\ info'.pv # << >> /\ info'.pv[1] # last_best_move)
          => (/\ last_change_time' = now'
              /\ last_best_move' = info'.pv[1]
              /\ pc' = "stream"
              /\ outcome' = "none")]_vars

\* The leading move changed at 5 s and again at 10 s, half a quiet period
\* apart; the detector converged only at 20 s, a full quiet period after
\* the last change.
C9_Witness ==
    /\ op = "analyze_position"
    /\ outcome = "stable"
    /\ hist_change_time = STABILITY_THRESHOLD
    /\ last_change_time = STABILITY_THRESHOLD
    /\ now = 2 * STABILITY_THRESHOLD
    /\ analysis_result.best_move = "m2"

\* ---------------------------------------------------------------------
\* C10.  An analysis method called while the engine is not initialised
\* raises RuntimeError before any oracle request is made and produces no
\* MoveRecord; a call that returns a verdict, whatever its score, raises
\* nothing.
AnalysisOps == {"analyze_game", "analyze_position", "analyze_specific_move"}

C10_UnavailableOracleRaises ==
    /\ (op \in AnalysisOps /\ ~engine) =>
          /\ pc = "raised"
          /\ error = "RuntimeError"
          /\ oracle_requests = 0
          /\ ~searching
          /\ moves_analysis = << >>
          /\ outcome = "none"
    /\ (op = "analyze_position" /\ pc = "done") => error = "none"
    /\ error = "RuntimeError" => ~engine

\* analyze_game has raised RuntimeError without an engine.
C10_Witness ==
    /\ op = "analyze_game"
    /\ ~engine
    /\ pc = "raised"
    /\ error = "RuntimeError"
    /\ oracle_requests = 0

\* ---------------------------------------------------------------------
\* C11.  analyze_game emits one MoveRecord per analysed ply, with ply_index
\* 0, 1, 2, ... in order, and returns right after the first ply whose
\* post-move position is terminal: the number of records returned is the
\* 1-based index of that ply, or the number of plies when no position is
\* terminal, and no record exists for a ply after a terminal position.
C11_OneRecordPerPlyUntilTerminal ==
    op = "analyze_game" =>
        /\ \A k \in 1 .. Len(moves_analysis) : moves_analysis[k].ply_index = k - 1
        /\ pc \in {"loop", "done"} => Len(moves_analysis) = ply_index
        /\ game.over_after > 0 => Len(moves_analysis) <= game.over_after
        /\ pc = "done" =>
             Len(moves_analysis) = IF game.over_after > 0
                                   THEN game.over_after
                                   ELSE game.total_moves

\* A game of three plies whose second ply ends the game: two records, the
\* third ply is not analysed.
C11_Witness ==
    /\ op = "analyze_game"
    /\ pc = "done"
    /\ game = [total_moves |-> 3, over_after |-> 2]
    /\ Len(moves_analysis) = 2
    /\ moves_analysis[2].ply_index = 1

\* ---------------------------------------------------------------------
\* C12.  analyze_position called with the quick budget runs in fixed-time
\* mode whatever the policy: one blocking request, no update taken from a
\* stream, the tracked state of the stability loop never touched.  Called
\* with any other budget under the stability policy it runs the streaming
\* loop and ends by convergence or with the stream.
C12_QuickBudgetIsFixedTime ==
    (op = "analyze_position" /\ pc # "raised") =>
        /\ position_time_limit = QUICK_ANALYSIS_TIME =>
             /\ pc \in {"analyse", "done"}
             /\ outcome = (IF pc = "done" THEN "fixed" ELSE "none")
             /\ oracle_requests = 1
             /\ last_best_move = NoMove /\ best_pv = << >> /\ best_eval = None
             /\ hist_lead = NoMove
        /\ (position_time_limit # QUICK_ANALYSIS_TIME /\ ANALYSIS_MODE = "stability") =>
             /\ pc \in {"stream", "done"}
             /\ pc = "stream" => outcome = "none"
             /\ pc = "done" => outcome \in {"stable", "exhausted"}
             /\ oracle_requests = 1

\* Under the stability policy a quick-budget call has returned the verdict
\* of its single info.
C12_Witness ==
    /\ op = "analyze_position"
    /\ ANALYSIS_MODE = "stability"
    /\ position_time_limit = QUICK_ANALYSIS_TIME
    /\ pc = "done"
    /\ outcome = "fixed"
    /\ info.pv = <<"m2", "m1">>
    /\ analysis_result.best_move = "m2"
    /\ analysis_result.evaluation = Some(-3)

\* ---------------------------------------------------------------------
\* C13.  Missing evaluation data is never fatal: with the engine running,
\* no analysis method raises on account of what the updates carry (it raises
\* only when the engine fails or a move cannot be rendered), and a missing
\* score stays an absent value in the verdict, the MoveRecord and its swing.
C13_MissingEvaluationNeverFatal ==
    /\ (op \in AnalysisOps /\ engine /\ pc = "raised")
          => error \in {"EngineError", "IllegalMoveError"}
    /\ (op = "analyze_position" /\ outcome = "fixed" /\ info.score = NoScore)
          => analysis_result.evaluation = None
    /\ \A k \in 1 .. Len(moves_analysis) :
          moves_analysis[k].eval_after = None => moves_analysis[k].eval_change = None

\* ---------------------------------------------------------------------
\* C14.  When the stream of a stability-mode analyze_position ends and no
\* update with a variation line was ever received, the call returns with
\* best move absent, score absent and an empty variation line; nothing is
\* raised and no second request is made.
C14_EmptyStreamGivesEmptyVerdict ==
    (op = "analyze_position" /\ outcome = "exhausted" /\ hist_lead = NoMove) =>
        /\ pc = "done"
        /\ error = "none"
        /\ analysis_result.best_move = NoMove
        /\ analysis_result.evaluation = None
        /\ analysis_result.principal_variation = << >>
        /\ oracle_requests = 1
        /\ ~searching

\* The stream ended after an update that had a score but no variation line.
C14_Witness ==
    /\ op = "analyze_position"
    /\ outcome = "exhausted"
    /\ hist_lead = NoMove
    /\ info = [pv |-> << >>, score |-> Cp(100)]
    /\ now > 0
    /\ analysis_result.best_move = NoMove
    /\ analysis_result.evaluation = None

\* ---------------------------------------------------------------------
\* The places where a streaming loop is running.
StreamingPlaces == {"stream", "deep_stream"}

\* C15.  Every step that leaves a streaming loop, by the stop condition, by
\* the end of the stream or by an exception, leaves with the search stopped;
\* no request is made to the oracle while a search is in flight, so that at
\* most one search is active; and a search is in flight only while the
\* analyzer waits for the oracle.
C15_SearchStoppedBeforeProceeding ==
    /\ [][(pc \in StreamingPlaces /\ pc' # pc) => ~searching']_vars
    /\ [][(oracle_requests' # oracle_requests) => ~searching]_vars
    /\ [](searching => pc \in StreamingPlaces \cup {"analyse"})

\* Under the stability policy the streaming evaluation of the move played
\* was aborted by an exception and the streaming loop on the position has
\* converged: two requests were made and no search is left running.
C15_Witness ==
    /\ op = "analyze_specific_move"
    /\ ANALYSIS_MODE = "stability"
    /\ actual_move = "m1"
    /\ actual_move_eval = None
    /\ pc = "done"
    /\ outcome = "stable"
    /\ oracle_requests = 2
    /\ ~searching

\* ---------------------------------------------------------------------
\* C16.  A move that cannot be rendered in notation never aborts analysis:
\* no analysis method raises because a rendering failed, in analyze_game as
\* little as in analyze_position and analyze_specific_move.
C16_RenderingFailureNeverAborts ==
    op \in AnalysisOps => ~(pc = "raised" /\ error = "IllegalMoveError")

\* ---------------------------------------------------------------------
\* C17.  In the stability loop of analyze_position the tracked score and
\* variation are those of the last usable update processed: an update whose
\* leading move is the tracked one is applied as a refinement, the update at
\* which the quiet period is found to be over included, so that the verdict
\* of a converged search carries the score and variation of that update.
C17_VerdictOfLastUsableUpdate ==
    (op = "analyze_position" /\ pc \in {"stream", "done"} /\ info.pv # << >>) =>
        /\ outcome = "none" =>
             /\ last_best_move = info.pv[1]
             /\ best_pv = info.pv
             /\ best_eval = ExtractEvaluation(info)
        /\ outcome = "stable" =>
             /\ analysis_result.best_move = info.pv[1]
             /\ analysis_result.principal_variation = Take(info.pv, PVDepth)
             /\ analysis_result.evaluation = ExtractEvaluation(info)

\* ---------------------------------------------------------------------
\* C18.  analyze_game threads the running verdict through the plies: the
\* first record's eval_before, position_analysis and time_taken_before are
\* those of the verdict of the initial position, which was analysed at the
\* quick budget, and in every pair of consecutive records the eval_before
\* and time_taken_before of the later one are the eval_after and
\* time_taken_after of the earlier one.
C18_RunningVerdictThreaded ==
    /\ [](op = "analyze_game" =>
            \A k \in 1 .. Len(moves_analysis) - 1 :
                /\ moves_analysis[k + 1].eval_before = moves_analysis[k].eval_after
                /\ moves_analysis[k + 1].time_taken_before = moves_analysis[k].time_taken_after
                /\ moves_analysis[k + 1].position_analysis.evaluation
                     = moves_analysis[k].eval_after)
    /\ []((op = "analyze_game" /\ pc = "loop" /\ moves_analysis = << >>) =>
            current_analysis \in AnalyzePositionResults(ANALYSIS_MODE, QUICK_ANALYSIS_TIME))
    /\ [][(op = "analyze_game" /\ moves_analysis = << >> /\ moves_analysis' # << >>) =>
            /\ Len(moves_analysis') = 1
            /\ moves_analysis'[1].position_analysis = current_analysis
            /\ moves_analysis'[1].eval_before = current_analysis.evaluation
            /\ moves_analysis'[1].time_taken_before = current_analysis.time_taken]_vars

\* Two records: the initial position was judged -3 in 11 s, the position
\* after the first ply +15 in 0 s, which is what the second record starts
\* from.
C18_Witness ==
    /\ op = "analyze_game"
    /\ Len(moves_analysis) = 2
    /\ moves_analysis[1].eval_before = Some(-3)
    /\ moves_analysis[1].time_taken_before = 11
    /\ moves_analysis[1].eval_after = Some(15)
    /\ moves_analysis[1].time_taken_after = 0
    /\ moves_analysis[2].eval_before = Some(15)
    /\ moves_analysis[2].time_taken_before = 0
    /\ moves_analysis[2].position_analysis.evaluation = Some(15)
    /\ moves_analysis[2].eval_after = None

\* ---------------------------------------------------------------------
\* A step of either streaming loop that takes one update from the stream.
TakesUpdateInLoop ==
    /\ pc \in StreamingPlaces
    /\ outcome' \notin {"exhausted", "aborted"}

\* C19.  In both streaming loops an update without a variation line leaves
\* the tracked best move, score, variation and "last change time" as they
\* were, is not taken for a change of the best move, does not end the loop
\* and does not move the detector out of AwaitingFirst.
C19_UpdateWithoutLineIgnored ==
    [][(TakesUpdateInLoop /\ info'.pv = << >>) =>
          /\ last_best_move' = last_best_move
          /\ best_pv' = best_pv /\ best_eval' = best_eval
          /\ last_pv' = last_pv /\ last_eval' = last_eval
          /\ last_change_time' = last_change_time
          /\ hist_change_time' = hist_change_time
          /\ pc' = pc /\ outcome' = outcome /\ searching' = searching]_vars

\* Under the stability policy analyze_specific_move tracks m1 since 0 s; the
\* update that arrived at 10 s had a score but no variation line, and the
\* loop goes on with the tracked state of before.
C19_Witness ==
    /\ op = "analyze_specific_move"
    /\ ANALYSIS_MODE = "stability"
    /\ pc = "deep_stream"
    /\ info = [pv |-> << >>, score |-> Cp(100)]
    /\ last_pv = <<"m1">>
    /\ last_eval = Some(-3)
    /\ last_change_time = 0
    /\ now = STABILITY_THRESHOLD

\* ---------------------------------------------------------------------
\* C20.  Given the move played, analyze_specific_move evaluates the position
\* after it exactly once, by a single request in fixed-time mode under
\* either policy, and starts the streaming loop on the chosen position only
\* then; the baseline it keeps is the negation of an evaluation the oracle
\* gave, or absent.
C20_BaselineBySingleFixedRequest ==
    (op = "analyze_specific_move" /\ engine /\ actual_move # NoMove) =>
        /\ pc # "stream"
        /\ pc = "analyse" => (oracle_requests = 1 /\ searching)
        /\ pc = "baseline" => (outcome = "fixed" /\ oracle_requests = 1 /\ ~searching)
        /\ pc \notin {"analyse", "baseline"} =>
             /\ oracle_requests = 2
             /\ actual_move_eval \in
                  {None} \cup {Some(0 - ExtractEvaluation(i)[1]) :
                                 i \in {j \in PositionInfos : j.score # NoScore}}

\* ---------------------------------------------------------------------
\* C21.  The loop of analyze_specific_move is left at the update that makes
\* its stop condition true, so that it is never found running past it: under
\* the time policy the time elapsed at the update last taken, with or
\* without a variation line, does not exceed duration_seconds; under the
\* stability policy the time since the last best-move change at the usable
\* update last taken is below the quiet period.
C21_DurationCheckedAfterEveryUpdate ==
    (op = "analyze_specific_move" /\ pc = "deep_stream") =>
        /\ ANALYSIS_MODE = "time" => now - start_time <= duration_seconds
        /\ (ANALYSIS_MODE = "stability" /\ info.pv # << >>) =>
             now - last_change_time < STABILITY_THRESHOLD

\* ---------------------------------------------------------------------
\* C22.  analyze_game analyses each position of the game line once: a run
\* with k MoveRecords has made k + 1 requests to the oracle, one for the
\* initial position and one per record for the position after its move,
\* none for the position before a move again, and none for a position after
\* a terminal one.
C22_OneRequestPerPosition ==
    (op = "analyze_game" /\ engine) =>
        /\ pc = "initial" => (oracle_requests = 0 /\ moves_analysis = << >>)
        /\ pc # "initial" => oracle_requests = Len(moves_analysis) + 1
        /\ game.over_after > 0 => oracle_requests <= game.over_after + 1
        /\ oracle_requests <= game.total_moves + 1

\* A game of three plies that is over after the second: two records and
\* three requests, none for the position after the third ply.
C22_Witness ==
    /\ op = "analyze_game"
    /\ pc = "done"
    /\ game = [total_moves |-> 3, over_after |-> 2]
    /\ Len(moves_analysis) = 2
    /\ oracle_requests = 3

\* ---------------------------------------------------------------------
\* C23.  find_worst_moves leaves its input as it was, the same records in
\* the same order with the same field values, and every record it returns
\* is one of the input records, each returned at most once.
C23_InputUnchanged ==
    /\ [][(op = "find_worst_moves") => analysis' = analysis]_vars
    /\ [](WorstMovesReturned =>
            /\ \A j \in 1 .. Len(worst_moves) :
                 \E i \in 1 .. Len(analysis) : worst_moves[j] = analysis[i]
            /\ \A j \in 1 .. Len(worst_moves) : \A k \in (j + 1) .. Len(worst_moves) :
                 worst_moves[j].ply_index # worst_moves[k].ply_index)

\* An input that is neither sorted nor all eligible: its third and first
\* records are returned, in that order, and the input still starts with the
\* record of swing +2 and still holds the record without a swing.
C23_Witness ==
    /\ WorstMovesReturned
    /\ Len(analysis) = 3
    /\ analysis[1].eval_change = Some(2)
    /\ analysis[2].eval_change = None
    /\ analysis[3].eval_change = Some(-27)
    /\ \A i \in {1, 3} : analysis[i].eval_before = Some(0)
    /\ worst_moves = <<analysis[3], analysis[1]>>

\* ---------------------------------------------------------------------
\* C24.  All through the stability loop of analyze_position, and in the
\* verdict it returns, the tracked best move and the tracked variation
\* agree: both are absent, or the variation is not empty and starts with the
\* tracked best move; the returned variation has at most PVDepth moves and
\* is a prefix of the tracked one.
C24_BestMoveLeadsVariation ==
    (op = "analyze_position" /\ pc \in {"stream", "done"}
     /\ UseStability(ANALYSIS_MODE, position_time_limit)) =>
        /\ \/ (last_best_move = NoMove /\ best_pv = << >>)
           \/ (last_best_move # NoMove /\ best_pv # << >> /\ best_pv[1] = last_best_move)
        /\ pc = "done" =>
             LET pv == analysis_result.principal_variation
             IN  /\ analysis_result.best_move = last_best_move
                 /\ Len(pv) = Min(PVDepth, Len(best_pv))
                 /\ \A k \in 1 .. Len(pv) : pv[k] = best_pv[k]

\* The detector converged on a variation longer than PVDepth whose leading
\* move took the lead after the start: the verdict has its first PVDepth
\* moves.
C24_Witness ==
    /\ op = "analyze_position"
    /\ pc = "done"
    /\ outcome = "stable"
    /\ hist_change_time > 0
    /\ best_pv = LongPV
    /\ last_best_move = LongPV[1]
    /\ Len(analysis_result.principal_variation) = PVDepth
    /\ analysis_result.best_move = LongPV[1]

====
